---- MODULE Spec2Model ----
(***************************************************************************)
(* Model of the VCD parser session driver (VCDFileParser): construction,   *)
(* parse_file, scan_begin, scan_end, the token pull and the semantic       *)
(* actions of the grammar engine, for several sessions whose steps         *)
(* interleave.                                                             *)
(*                                                                         *)
(* The driver (VCDFileParser.hpp / VCDFileParser.cpp) is translated from   *)
(* its source.  The tokenizer rules, the grammar and the data model        *)
(* (VCDScanner.l, VCDParser.ypp, VCDFile) are not among the sources; they  *)
(* are modelled from sections 3 and 4 of the specification.                *)
(***************************************************************************)
EXTENDS Integers, Sequences, FiniteSets, TLC

\* ------------------------------------------------------------------ bounds
NSessions == 2      \* sessions (VCDFileParser objects, one per thread)
MaxCalls  == 2      \* parse_file calls in one run, over all sessions
MaxLen    == 5      \* tokens of a generated input file
MaxSim    == 4      \* tokens of a generated value-change section
MaxDecl   == 6      \* tokens of a generated declaration section

Sessions == 1..NSessions

\* --------------------------------------------------------------- pointers
\* A pointer is a record [o, n]: o is the session whose call allocated the
\* object (0 for objects of the process), n numbers that session's
\* allocations of the kind.  Two allocations never yield the same pointer.
NULL   == [o |-> 0, n |-> 0]
UNINIT == [o |-> 0, n |-> -1]    \* a member the constructor does not set
STDIN  == [o |-> 0, n |-> 1]     \* the process's stdin

\* ----------------------------------------------------------------- tokens
TScope(name)    == [k |-> "SCOPE",   a |-> name, b |-> "",  v |-> 0]
TUpscope        == [k |-> "UPSCOPE", a |-> "",   b |-> "",  v |-> 0]
TVar(id, ref)   == [k |-> "VAR",     a |-> id,   b |-> ref, v |-> 0]
TEndDefs        == [k |-> "ENDDEFS", a |-> "",   b |-> "",  v |-> 0]
TTime(t)        == [k |-> "TIME",    a |-> "",   b |-> "",  v |-> t]
TChange(id, x)  == [k |-> "CHANGE",  a |-> id,   b |-> "",  v |-> x]
TBad            == [k |-> "BAD",     a |-> "",   b |-> "",  v |-> 0]
TEof            == [k |-> "EOF",     a |-> "",   b |-> "",  v |-> 0]

\* ------------------------------------------------------------ environment
\* The files of the file system, as the token sequences the tokenizer
\* produces for them.
Library ==
  [ minimal |-> << TScope("testbench"), TVar("!", "sig0"), TUpscope, TEndDefs,
                   TChange("!", 0), TTime(10), TChange("!", 1) >>,
    nested  |-> << TScope("a"), TScope("b"), TUpscope, TUpscope, TEndDefs >>,
    upscope |-> << TScope("a"), TUpscope, TUpscope, TEndDefs >>,
    unclosed |-> << TScope("a"), TScope("b"), TVar("!", "x") >>,
    gen     |-> << TScope("a"), TVar("!", "x"), TVar("!", "y"), TUpscope,
                   TEndDefs >> ]

\* The token sequences of at most n tokens over a set of tokens.
RECURSIVE SeqsUpTo(_, _)
SeqsUpTo(S, n) ==
  IF n = 0 THEN { << >> }
  ELSE LET shorter == SeqsUpTo(S, n - 1)
       IN  shorter \cup { Append(q, x) : q \in shorter, x \in S }

\* The generated inputs: every arrangement of scope, upscope, declaration,
\* $enddefinitions, value-change and unclassifiable tokens up to MaxLen.
GenTokens ==
  { TScope("a"), TUpscope, TVar("!", "x"), TEndDefs, TChange("!", 1), TBad }
GenInputs == SeqsUpTo(GenTokens, MaxLen)

\* The generated declaration sections: every arrangement of scope, upscope
\* and two declarations of the identifier "!" up to MaxDecl, closed by
\* $enddefinitions.
DeclTokens == { TScope("a"), TUpscope, TVar("!", "x"), TVar("!", "y") }
DeclInputs == { Append(q, TEndDefs) : q \in SeqsUpTo(DeclTokens, MaxDecl) }

\* The generated value-change sections: every arrangement of three
\* timestamps and two values of the identifier "!" up to MaxSim, after a
\* declaration section that declares "!" twice.
SimHeader ==
  << TScope("a"), TVar("!", "x"), TVar("!", "y"), TUpscope, TEndDefs >>
SimTokens ==
  { TTime(0), TTime(5), TTime(10), TChange("!", 0), TChange("!", 1) }
SimInputs == { SimHeader \o q : q \in SeqsUpTo(SimTokens, MaxSim) }

TimeMax == 1000   \* std::numeric_limits<VCDTime>::max(), scaled to the model

\* The time windows a caller sets before parse_file: the constructor's
\* defaults, or a narrower one.
Windows ==
  { [lo |-> -TimeMax, hi |-> TimeMax], [lo |-> 5, hi |-> 10],
    [lo |-> 0, hi |-> 5] }

\* What stdin holds when the process starts.
StdinContent == << TScope("s"), TUpscope, TEndDefs >>

\* The paths the callers of the concurrent runs pass: the hand-written
\* files, a path that names no file, and the two spellings of standard
\* input.  The file "gen" is for the runs over the generated inputs.
Paths == (DOMAIN Library \ {"gen"}) \cup {"missing", "-", ""}

VARIABLES
  sessions,    \* session -> the members of the VCDFileParser and its heap
  stdin_rest,  \* what is left to read on the process's stdin
  exited,      \* the process has called exit()
  fs,          \* the file system: path -> tokens
  calls,       \* parse_file calls made so far
  overlap      \* the sessions whose current or last call ran while another
               \* session's call was taking steps

vars == << sessions, stdin_rest, exited, fs, calls, overlap >>


\* ---------------------------------------------------------- program values
FirstLine == 1    \* the line of a default-constructed VCDParser::location

\* ------------------------------------------------------------------- heap
\* The Traces (VCDFile) and Scopes (VCDScope) a session's calls allocate are
\* kept in the session's record; a pointer [o, n] to one of them is index n
\* of the table of session o.
TracePtr(sess, n) == [o |-> sess.self, n |-> n]

NewTraceObj ==
  [alive |-> TRUE, root_scope |-> NULL, scopes |-> << >>, signals |-> << >>,
   times |-> << >>]

NewScopeObj ==
  [alive |-> TRUE, name |-> "", type |-> "", parent |-> NULL,
   children |-> << >>, signals |-> << >>]

\* new VCDFile(): fh and the local tr refer to the new object.
AllocTrace(sess) ==
  LET p == TracePtr(sess, Len(sess.traces) + 1)
  IN  [sess EXCEPT !.traces = Append(@, NewTraceObj), !.fh = p, !.tr = p]

\* this->fh->root_scope = new VCDScope, with its name and type, then
\* this->scopes.push(this->fh->root_scope).
AllocRoot(sess, name) ==
  LET p == [o |-> sess.self, n |-> Len(sess.scopeObjs) + 1]
  IN  [sess EXCEPT
         !.scopeObjs = Append(@, [NewScopeObj EXCEPT !.name = name,
                                                     !.type = "VCD_SCOPE_ROOT"]),
         !.traces[sess.fh.n].root_scope = p,
         !.scopes = Append(@, p)]

\* Top that yields the oldest entry, as of a queue.
Bottom(stk) == stk[1]

\* Pop that removes the oldest entry, as of a queue.
PopOldest(stk) == Tail(stk)

\* std::stack: top() and pop().
Top(stk) == stk[Len(stk)]
Pop(stk) == SubSeq(stk, 1, Len(stk) - 1)

\* VCDFile::add_scope: the Trace's list of scopes gains the scope.
AddScope(sess, t, sc) ==
  [sess EXCEPT !.traces[t.n].scopes = Append(@, sc)]

\* VCDFile::~VCDFile: the Trace and every Scope it owns are destroyed.
DestroyTrace(sess, t) ==
  LET owned == { sess.traces[t.n].scopes[i] : i \in DOMAIN sess.traces[t.n].scopes }
  IN  [sess EXCEPT
         !.traces[t.n].alive = FALSE,
         !.scopeObjs = [i \in DOMAIN @ |->
                          IF [o |-> sess.self, n |-> i] \in owned
                          THEN [@[i] EXCEPT !.alive = FALSE] ELSE @[i]]]

\* ----------------------------------------------------------------- driver
\* VCDFileParser::VCDFileParser.  fh is not set by the constructor; loc,
\* filepath and scopes are default-constructed members.
NewSession(s) ==
  [self |-> s, pc |-> "idle",
   filepath |-> "", trace_scanning |-> FALSE, trace_parsing |-> FALSE,
   start_time |-> -TimeMax, end_time |-> TimeMax, current_time |-> 0,
   loc |-> FirstLine, scanner |-> NULL, input_file |-> NULL,
   scopes |-> << >>, fh |-> UNINIT,
   \* locals of parse_file and the state of the scanner and of the parser
   tr |-> NULL, result |-> 0, pos |-> 0, phase |-> "decl", open |-> 0,
   nblocks |-> 0,
   \* the objects this session's calls have allocated
   traces |-> << >>, scopeObjs |-> << >>, nscan |-> 0, nopen |-> 0,
   liveScanners |-> {}, openFiles |-> {},
   \* what the caller and the diagnostic sink have seen, the calls of
   \* scan_begin, scan_end and fclose so far, and stdin and the stack depth as they
   \* were when the current call began
   ret |-> NULL, returned |-> FALSE, diag |-> "", diagLine |-> 0,
   \* the debug flag of the scanner, the debug level of the parser, and the
   \* number of debug lines the two have written
   scan_debug |-> 0, parse_debug |-> FALSE, debugOut |-> 0,
   nBegin |-> 0, nEnd |-> 0, closedStdin |-> FALSE, nclose |-> 0,
   stdin0 |-> << >>, depth0 |-> 0]

\* scan_begin, lines 426-433: yylex_init, yyset_extra, yyset_debug.
InitScanner(sess) ==
  LET sc == [o |-> sess.self, n |-> sess.nscan + 1]
  IN  [sess EXCEPT !.scanner = sc, !.nscan = @ + 1,
                   !.liveScanners = @ \cup {sc}, !.pos = 0, !.nBegin = @ + 1,
                   !.scan_debug = IF sess.trace_scanning THEN 1 ELSE 0]

\* OpenInput with one input stream for the whole process, as with the
\* scanner's former global yyin.
OpenInputGlobal(sess, files) ==
  IF sess.filepath = "" \/ sess.filepath = "-"
  THEN [sess EXCEPT !.input_file = STDIN, !.pc = "opened"]
  ELSE IF sess.filepath \in DOMAIN files
       THEN LET f == [o |-> 0, n |-> 2]
            IN  [sess EXCEPT !.input_file = f, !.nopen = @ + 1,
                             !.openFiles = @ \cup {f}, !.pc = "opened"]
       ELSE [sess EXCEPT !.input_file = NULL, !.diag = "Cannot open",
                         !.diagLine = 0, !.pc = "exit"]

\* scan_begin, lines 435-447: the input source for sess.filepath.  A path
\* that cannot be opened reports through error(m) and calls exit().
OpenInput(sess, files) ==
  IF sess.filepath = "" \/ sess.filepath = "-"
  THEN [sess EXCEPT !.input_file = STDIN, !.pc = "opened"]
  ELSE IF sess.filepath \in DOMAIN files
       THEN LET f == [o |-> sess.self, n |-> sess.nopen + 1]
            IN  [sess EXCEPT !.input_file = f, !.nopen = @ + 1,
                             !.openFiles = @ \cup {f}, !.pc = "opened"]
       ELSE [sess EXCEPT !.input_file = NULL, !.diag = "Cannot open",
                         !.diagLine = 0, !.pc = "exit"]

scan_begin(sess, files) == OpenInput(InitScanner(sess), files)

\* fclose(f).
CloseFile(sess, f) ==
  IF f = STDIN THEN [sess EXCEPT !.closedStdin = TRUE]
  ELSE [sess EXCEPT !.openFiles = @ \ {f}, !.nclose = @ + 1]

\* yylex_destroy(scanner).
DestroyScanner(sess, sc) == [sess EXCEPT !.liveScanners = @ \ {sc}]

\* scan_end that closes whatever input_file refers to, stdin included.
scan_endClosesStdin(sess) ==
  LET s1 == IF sess.input_file # NULL
            THEN CloseFile(sess, sess.input_file) ELSE sess
      s2 == [s1 EXCEPT !.input_file = NULL, !.nEnd = @ + 1]
  IN  IF s2.scanner # NULL
      THEN [DestroyScanner(s2, s2.scanner) EXCEPT !.scanner = NULL]
      ELSE s2

\* scan_end: fclose unless stdin, input_file = nullptr, yylex_destroy.
scan_end(sess) ==
  LET s1 == IF sess.input_file # NULL /\ sess.input_file # STDIN
            THEN CloseFile(sess, sess.input_file) ELSE sess
      s2 == [s1 EXCEPT !.input_file = NULL, !.nEnd = @ + 1]
  IN  IF s2.scanner # NULL
      THEN [DestroyScanner(s2, s2.scanner) EXCEPT !.scanner = NULL]
      ELSE s2

\* ResetTime without the reset.
KeepTime(sess) == sess

\* ResetTime that is skipped when the tokenizer is being traced.
ResetTimeWhenQuiet(sess) ==
  IF sess.trace_scanning THEN sess ELSE [sess EXCEPT !.current_time = 0]

\* parse_file, line 366: the time cursor is reset for each parse.
ResetTime(sess) == [sess EXCEPT !.current_time = 0]

\* parse_file, lines 365-368.
ParseEnter(sess, path, files) ==
  scan_begin(ResetTime([sess EXCEPT !.filepath = path, !.returned = FALSE,
                                    !.ret = NULL]), files)

\* ParseSetup that registers both root Scopes in the Trace.
ParseSetupRegistersBoth(sess) ==
  LET s1 == AllocRoot(AllocTrace(sess), "$root")
      s2 == AddScope(s1, s1.tr, Top(s1.scopes))
      s3 == AllocRoot(s2, "")
      s4 == AddScope(s3, s3.tr, Top(s3.scopes))
  IN  [s4 EXCEPT !.phase = "decl", !.open = 0, !.nblocks = 0, !.result = 0,
                 !.parse_debug = sess.trace_parsing, !.pc = "parsing"]

\* parse_file, lines 370-389: the Trace, the two root Scopes, both pushed,
\* the second registered in the Trace, and the parser object with its debug
\* level.
ParseSetup(sess) ==
  LET s1 == AllocRoot(AllocTrace(sess), "$root")
      s2 == AllocRoot(s1, "")
      s3 == AddScope(s2, s2.tr, Top(s2.scopes))
  IN  [s3 EXCEPT !.phase = "decl", !.open = 0, !.nblocks = 0, !.result = 0,
                 !.parse_debug = sess.trace_parsing, !.pc = "parsing"]

\* ParseReturn that forgets to delete the Trace of a failed parse.
ParseReturnNoDelete(sess) ==
  IF sess.result = 0
  THEN [sess EXCEPT !.fh = NULL, !.ret = sess.tr, !.tr = NULL,
                    !.returned = TRUE, !.pc = "idle"]
  ELSE [sess EXCEPT !.ret = NULL, !.tr = NULL,
                    !.returned = TRUE, !.pc = "idle"]

\* ParseReturn that hands back tr whatever the result.
ParseReturnAlways(sess) ==
  [sess EXCEPT !.fh = NULL, !.ret = sess.tr, !.tr = NULL,
               !.returned = TRUE, !.pc = "idle"]

\* ParseReturn with the test of the result the wrong way round.
ParseReturnInverted(sess) ==
  IF sess.result # 0
  THEN [sess EXCEPT !.fh = NULL, !.ret = sess.tr, !.tr = NULL,
                    !.returned = TRUE, !.pc = "idle"]
  ELSE [DestroyTrace(sess, sess.fh) EXCEPT !.ret = NULL, !.tr = NULL,
                    !.returned = TRUE, !.pc = "idle"]

\* parse_file, lines 397-407: what the call hands back.
ParseReturn(sess) ==
  IF sess.result = 0
  THEN [sess EXCEPT !.fh = NULL, !.ret = sess.tr, !.tr = NULL,
                    !.returned = TRUE, !.pc = "idle"]
  ELSE [DestroyTrace(sess, sess.fh) EXCEPT !.ret = NULL, !.tr = NULL,
                    !.returned = TRUE, !.pc = "idle"]

\* parse_file, lines 393-407.
ParseLeave(sess) ==
  ParseReturn(scan_end([sess EXCEPT !.scopes = Pop(@)]))

\* -------------------------------------------------- tokenizer and grammar
\* get_next_token: yylex(scanner) reads the next token of the session's
\* input source.  A file opened by this session is read at the scanner's own
\* position; stdin is the one stream of the process.  Every token is on a
\* line of its own, so loc moves on by one line per token.  A scanner whose
\* debug flag is set writes a debug line per token.
NextToken(sess, files, stdin) ==
  LET dbg == [sess EXCEPT !.debugOut = @ + sess.scan_debug]
  IN  IF sess.input_file = STDIN
      THEN IF stdin = << >>
           THEN [tok |-> TEof, sess |-> dbg, stdin |-> stdin]
           ELSE [tok |-> Head(stdin), sess |-> [dbg EXCEPT !.loc = @ + 1],
                 stdin |-> Tail(stdin)]
      ELSE IF sess.pos >= Len(files[sess.filepath])
           THEN [tok |-> TEof, sess |-> dbg, stdin |-> stdin]
           ELSE [tok |-> files[sess.filepath][sess.pos + 1],
                 sess |-> [dbg EXCEPT !.pos = @ + 1, !.loc = @ + 1],
                 stdin |-> stdin]

\* SyntaxError that reports through error(m), the overload with no
\* location.
SyntaxErrorNoLocation(sess) ==
  [sess EXCEPT !.result = 1, !.diag = "syntax error", !.diagLine = 0,
               !.pc = "parsed"]

\* parser::error(loc, m) -> driver.error(l, m): the line and the message go
\* to the diagnostic sink, and parser.parse() ends with a non-zero result.
SyntaxError(sess) ==
  [sess EXCEPT !.result = 1, !.diag = "syntax error", !.diagLine = sess.loc,
               !.pc = "parsed"]

Declared(sess, id) ==
  \E i \in DOMAIN sess.traces[sess.fh.n].signals :
     sess.traces[sess.fh.n].signals[i].hash = id

\* scope_block entry: a new Scope, child of the stack top, attached to the
\* parent's child list and to the Trace, and pushed.
ActScope(sess, name) ==
  LET p   == [o |-> sess.self, n |-> Len(sess.scopeObjs) + 1]
      par == Top(sess.scopes)
      s1  == [sess EXCEPT
                !.scopeObjs = Append(@, [NewScopeObj EXCEPT !.name = name,
                                           !.type = "VCD_SCOPE_MODULE",
                                           !.parent = par])]
      s2  == [s1 EXCEPT !.scopeObjs[par.n].children = Append(@, p)]
  IN  [AddScope(s2, s2.fh, p) EXCEPT !.scopes = Append(@, p),
                                     !.open = @ + 1, !.nblocks = @ + 1]

\* $upscope: pop the stack.
ActUpscope(sess) == [sess EXCEPT !.scopes = Pop(@), !.open = @ - 1]

\* item: a Signal, appended to the scope on top of the stack and to the
\* Trace's flattened signal list.
ActVar(sess, id, ref) ==
  LET sig == [hash |-> id, reference |-> ref, scope |-> Top(sess.scopes)]
  IN  [sess EXCEPT !.scopeObjs[Top(sess.scopes).n].signals = Append(@, sig),
                   !.traces[sess.fh.n].signals = Append(@, sig)]

\* The TimeStep for time t: the last one when it has that time, else a new
\* one at the end.
OpenStep(times, t) ==
  IF times # << >> /\ times[Len(times)].time = t THEN times
  ELSE Append(times, [time |-> t, changes |-> << >>])

\* timestamp: the time cursor moves and the TimeStep is opened.
ActTime(sess, t) ==
  [sess EXCEPT !.current_time = t,
               !.traces[sess.fh.n].times = OpenStep(@, t)]

\* value_change: recorded into the TimeStep of the time cursor.
ActChange(sess, id, x) ==
  LET ts == OpenStep(sess.traces[sess.fh.n].times, sess.current_time)
  IN  [sess EXCEPT !.traces[sess.fh.n].times =
         [ts EXCEPT ![Len(ts)].changes = Append(@, [id |-> id, v |-> x])]]

\* One step of parser.parse(): the token in its grammar position runs its
\* semantic action; anything else is a parse failure.  The input is accepted
\* at end of file once $enddefinitions has been seen.
\*   vcd_file    := scope_block+ $enddefinitions value_change_section
\*   scope_block := $scope item* $upscope ;  item := $var | scope_block
GrammarStep(sess, tok) ==
  CASE tok.k = "SCOPE" /\ sess.phase = "decl" -> ActScope(sess, tok.a)
    [] tok.k = "UPSCOPE" /\ sess.phase = "decl" /\ sess.open > 0
         /\ sess.scopes # << >> -> ActUpscope(sess)
    [] tok.k = "VAR" /\ sess.phase = "decl" /\ sess.open > 0 ->
         ActVar(sess, tok.a, tok.b)
    [] tok.k = "ENDDEFS" /\ sess.phase = "decl" /\ sess.open = 0
         /\ sess.nblocks > 0 -> [sess EXCEPT !.phase = "sim"]
    [] tok.k = "TIME" /\ sess.phase = "sim" -> ActTime(sess, tok.v)
    [] tok.k = "CHANGE" /\ sess.phase = "sim" /\ Declared(sess, tok.a) ->
         ActChange(sess, tok.a, tok.v)
    [] tok.k = "EOF" /\ sess.phase = "sim" ->
         [sess EXCEPT !.result = 0, !.pc = "parsed"]
    [] OTHER -> SyntaxError(sess)

\* The token pull and the semantic action it leads to.  A parser whose
\* debug level is set writes a debug line per token it handles.
ParseStep(sess, files, stdin) ==
  LET r == NextToken(sess, files, stdin)
      g == GrammarStep(r.sess, r.tok)
  IN  [sess |-> [g EXCEPT !.debugOut = @ + (IF g.parse_debug THEN 1 ELSE 0)],
       stdin |-> r.stdin]

\* Store with current_time a variable of the process, not of the instance.
StoreSharedTime(ss, s, n) ==
  [t \in DOMAIN ss |->
     IF t = s THEN n ELSE [ss[t] EXCEPT !.current_time = n.current_time]]

\* Store with loc a static of the scanner, not of the instance.
StoreSharedLoc(ss, s, n) ==
  [t \in DOMAIN ss |-> IF t = s THEN n ELSE [ss[t] EXCEPT !.loc = n.loc]]

\* ---------------------------------------------------------- specification
\* The members of an instance are written through `this`: a step of session
\* s replaces the record of s and of no other session.
Store(ss, s, n) == [ss EXCEPT ![s] = n]

InCall(sess) == sess.pc \in {"opened", "parsing", "parsed"}

\* The other sessions that are inside a call while s takes a step.
Others(s) == { t \in Sessions \ {s} : InCall(sessions[t]) }

Overlap(s) == IF Others(s) = {} THEN overlap ELSE overlap \cup Others(s) \cup {s}

Init ==
  /\ sessions = [s \in Sessions |-> NewSession(s)]
  /\ stdin_rest = StdinContent
  /\ exited = FALSE
  /\ fs = Library
  /\ calls = 0
  /\ overlap = {}

\* The caller calls parse_file(path): lines 365-368.
Call(s, path) ==
  /\ ~exited /\ calls < MaxCalls
  /\ sessions[s].pc = "idle"
  /\ LET n == ParseEnter([sessions[s] EXCEPT !.stdin0 = stdin_rest,
                                         !.depth0 = Len(sessions[s].scopes)], path, fs)
     IN  /\ sessions' = Store(sessions, s, n)
         /\ exited' = (n.pc = "exit")
  /\ calls' = calls + 1
  /\ overlap' = (overlap \ {s}) \cup (IF Others(s) = {} THEN {} ELSE Others(s) \cup {s})
  /\ UNCHANGED << stdin_rest, fs >>

\* parse_file, lines 370-389.
Setup(s) ==
  /\ ~exited /\ sessions[s].pc = "opened"
  /\ sessions' = Store(sessions, s, ParseSetup(sessions[s]))
  /\ overlap' = Overlap(s)
  /\ UNCHANGED << stdin_rest, exited, fs, calls >>

\* parser.parse(), one token.
Step(s) ==
  /\ ~exited /\ sessions[s].pc = "parsing"
  /\ LET r == ParseStep(sessions[s], fs, stdin_rest)
     IN  /\ sessions' = Store(sessions, s, r.sess)
         /\ stdin_rest' = r.stdin
  /\ overlap' = Overlap(s)
  /\ UNCHANGED << exited, fs, calls >>

\* parse_file, lines 393-407.
Leave(s) ==
  /\ ~exited /\ sessions[s].pc = "parsed"
  /\ sessions' = Store(sessions, s, ParseLeave(sessions[s]))
  /\ overlap' = Overlap(s)
  /\ UNCHANGED << stdin_rest, exited, fs, calls >>

\* A destructor that deletes the Trace of the last parse.
DestroySessionDeletes(sess) ==
  IF sess.traces = << >> THEN [sess EXCEPT !.pc = "destroyed"]
  ELSE [DestroyTrace(sess, TracePtr(sess, Len(sess.traces)))
          EXCEPT !.pc = "destroyed"]

\* VCDFileParser::~VCDFileParser: the body is empty.
DestroySession(sess) == [sess EXCEPT !.pc = "destroyed"]

Destroy(s) ==
  /\ ~exited /\ sessions[s].pc = "idle" /\ sessions[s].returned
  /\ sessions' = Store(sessions, s, DestroySession(sessions[s]))
  /\ UNCHANGED << stdin_rest, exited, fs, calls, overlap >>

Next ==
  \/ \E s \in Sessions, path \in Paths : Call(s, path)
  \/ \E s \in Sessions : Setup(s)
  \/ \E s \in Sessions : Step(s)
  \/ \E s \in Sessions : Leave(s)
  \/ \E s \in Sessions : Destroy(s)

Spec == Init /\ [][Next]_vars

\* One session parses the file "gen" again and again; the file holds any of
\* the generated inputs.
InitInputs ==
  /\ sessions = [s \in Sessions |-> NewSession(s)]
  /\ stdin_rest = StdinContent
  /\ exited = FALSE
  /\ fs \in { [Library EXCEPT !.gen = q] : q \in GenInputs }
  /\ calls = 0
  /\ overlap = {}

NextInputs ==
  \/ Call(1, "gen")
  \/ Setup(1)
  \/ Step(1)
  \/ Leave(1)

SpecInputs == InitInputs /\ [][NextInputs]_vars

\* One session, with a time window the caller has set, parses the file
\* "gen" again and again; the file holds any of the generated value-change
\* sections.
InitSim ==
  /\ \E w \in Windows :
        sessions = [s \in Sessions |->
                      [NewSession(s) EXCEPT !.start_time = w.lo,
                                            !.end_time = w.hi]]
  /\ stdin_rest = StdinContent
  /\ exited = FALSE
  /\ fs \in { [Library EXCEPT !.gen = q] : q \in SimInputs }
  /\ calls = 0
  /\ overlap = {}

SpecSim == InitSim /\ [][NextInputs]_vars

\* One session, with the debug toggles as the caller has set them, parses
\* the file "gen" again and again; the file holds one of the hand-written
\* files or of the generated value-change sections.
DebugInputs == { Library[f] : f \in DOMAIN Library } \cup SimInputs

InitDebug ==
  /\ \E ts, tp \in BOOLEAN :
        sessions = [s \in Sessions |->
                      [NewSession(s) EXCEPT !.trace_scanning = ts,
                                            !.trace_parsing = tp]]
  /\ stdin_rest = StdinContent
  /\ exited = FALSE
  /\ fs \in { [Library EXCEPT !.gen = q] : q \in DebugInputs }
  /\ calls = 0
  /\ overlap = {}

SpecDebug == InitDebug /\ [][NextInputs]_vars

\* One session parses the file "gen" again and again; the file holds any of
\* the generated declaration sections.
InitDecl ==
  /\ sessions = [s \in Sessions |-> NewSession(s)]
  /\ stdin_rest = StdinContent
  /\ exited = FALSE
  /\ fs \in { [Library EXCEPT !.gen = q] : q \in DeclInputs }
  /\ calls = 0
  /\ overlap = {}

SpecDecl == InitDecl /\ [][NextInputs]_vars

\* ------------------------------------------------------- results as values
\* What a caller can observe of a Trace, with pointers replaced by the
\* position of the scope in the Trace's list of scopes (0: not in the list).
PosIn(q, x) == IF \E i \in DOMAIN q : q[i] = x
               THEN CHOOSE i \in DOMAIN q : q[i] = x ELSE 0

ScopeValue(sess, t, p) ==
  LET sc == sess.scopeObjs[p.n]
      ls == sess.traces[t.n].scopes
  IN  [name |-> sc.name, type |-> sc.type, parent |-> PosIn(ls, sc.parent),
       children |-> [i \in DOMAIN sc.children |-> PosIn(ls, sc.children[i])],
       signals |-> [i \in DOMAIN sc.signals |->
                      [hash |-> sc.signals[i].hash,
                       reference |-> sc.signals[i].reference]]]

TraceValue(sess, t) ==
  LET tr == sess.traces[t.n]
  IN  [root |-> PosIn(tr.scopes, tr.root_scope),
       scopes |-> [i \in DOMAIN tr.scopes |-> ScopeValue(sess, t, tr.scopes[i])],
       signals |-> [i \in DOMAIN tr.signals |->
                      [hash |-> tr.signals[i].hash,
                       reference |-> tr.signals[i].reference,
                       scope |-> PosIn(tr.scopes, tr.signals[i].scope)]],
       times |-> tr.times]

NoTrace == [root |-> 0, scopes |-> << >>, signals |-> << >>, times |-> << >>]

\* The result of the call that has just returned.
Outcome(sess) ==
  IF sess.ret = NULL THEN [ok |-> FALSE, trace |-> NoTrace]
  ELSE [ok |-> TRUE, trace |-> TraceValue(sess, sess.ret)]

\* parser.parse() run to its end.
RECURSIVE RunParser(_, _, _)
RunParser(sess, files, stdin) ==
  IF sess.pc # "parsing" THEN sess
  ELSE LET r == ParseStep(sess, files, stdin)
       IN  RunParser(r.sess, files, r.stdin)

\* parse_file(path) on a session that has just been constructed, alone.
FreshParse(path, files, stdin) ==
  LET s0 == ParseEnter(NewSession(1), path, files)
  IN  IF s0.pc = "exit" THEN s0
      ELSE ParseLeave(RunParser(ParseSetup(s0), files, stdin))

Returned(sess) == sess.pc = "idle" /\ sess.returned

Range(q) == { q[i] : i \in DOMAIN q }

\* The Trace of the call a session is in or has just returned from.
LastTrace(sess) == TracePtr(sess, Len(sess.traces))

\* The Trace a session is building.
InProgress(sess) ==
  IF sess.pc \in {"parsing", "parsed"} THEN sess.fh ELSE NULL

\* The Traces a session has handed to its callers.
Handed(sess) ==
  { i \in DOMAIN sess.traces :
      sess.traces[i].alive /\ TracePtr(sess, i) # InProgress(sess) }

\* Scanning an input: the number of scopes open after it, and whether an
\* $upscope came when none was open.
RECURSIVE ScanDepth(_, _, _)
ScanDepth(q, d, bad) ==
  IF q = << >> THEN [depth |-> d, unmatched |-> bad]
  ELSE IF Head(q).k = "SCOPE" THEN ScanDepth(Tail(q), d + 1, bad)
  ELSE IF Head(q).k = "UPSCOPE"
       THEN IF d = 0 THEN ScanDepth(Tail(q), d, TRUE)
            ELSE ScanDepth(Tail(q), d - 1, bad)
  ELSE ScanDepth(Tail(q), d, bad)

UnmatchedUpscope(q) == ScanDepth(q, 0, FALSE).unmatched
UnclosedScope(q)    == ScanDepth(q, 0, FALSE).depth > 0

\* ------------------------------------------------------------------ claims

\* C1. Sequential reuse: a call of parse_file on a session that has parsed
\* before, running alone, returns the same result (success or failure, scope
\* tree, signal list, TimeSteps) as the same call on a session that has just
\* been constructed.
C1_SequentialReuse ==
  \A s \in Sessions :
     (Returned(sessions[s]) /\ sessions[s].nBegin >= 2 /\ s \notin overlap)
       => Outcome(sessions[s]) =
            Outcome(FreshParse(sessions[s].filepath, fs, sessions[s].stdin0))

\* A second parse has succeeded on a session whose first parse failed and
\* left entries on the scope stack.
C1_Witness ==
  \E s \in Sessions :
     /\ Returned(sessions[s]) /\ sessions[s].nBegin = 2 /\ s \notin overlap
     /\ sessions[s].ret # NULL
     /\ ~sessions[s].traces[1].alive
     /\ Len(sessions[s].scopes) > 1
     /\ sessions[s].traces[2].times # << >>

\* C2. Concurrency: a call of parse_file on a named file whose steps
\* interleave with those of another session's call returns the same result
\* as parsing that file alone.
C2_ConcurrentEqualsAlone ==
  \A s \in Sessions :
     (Returned(sessions[s]) /\ s \in overlap
        /\ sessions[s].filepath \in DOMAIN fs)
       => Outcome(sessions[s]) =
            Outcome(FreshParse(sessions[s].filepath, fs, << >>))

\* Two sessions have returned Traces of different files from calls that
\* overlapped.
C2_Witness ==
  \E s, t \in Sessions :
     /\ s # t /\ {s, t} \subseteq overlap
     /\ Returned(sessions[s]) /\ Returned(sessions[t])
     /\ sessions[s].ret # NULL /\ sessions[t].ret # NULL
     /\ sessions[s].filepath # sessions[t].filepath
     /\ sessions[s].filepath \in DOMAIN fs /\ sessions[t].filepath \in DOMAIN fs

C4_NothingShared ==
  \A s, t \in Sessions :
     s # t =>
       /\ sessions[s].input_file # NULL
            => sessions[s].input_file # sessions[t].input_file
       /\ InProgress(sessions[s]) # NULL
            => InProgress(sessions[s]) # InProgress(sessions[t])

\* C4 as amended. No two sessions hold the same Trace in progress, and two
\* sessions hold the same input source only when both were given a path of
\* standard input ("-" or the empty path) and the source is stdin.
C4_SharedOnlyStdin ==
  \A s, t \in Sessions :
     s # t =>
       /\ (sessions[s].input_file # NULL
             /\ sessions[s].input_file = sessions[t].input_file)
            => /\ sessions[s].input_file = STDIN
               /\ sessions[s].filepath \in {"-", ""}
               /\ sessions[t].filepath \in {"-", ""}
       /\ InProgress(sessions[s]) # NULL
            => InProgress(sessions[s]) # InProgress(sessions[t])

\* Two sessions are parsing the same named file at the same time, each with
\* an input source and a Trace in progress.
C4_Witness ==
  \E s, t \in Sessions :
     /\ s # t
     /\ sessions[s].filepath = sessions[t].filepath
     /\ sessions[s].filepath \in DOMAIN fs
     /\ sessions[s].pc = "parsing" /\ sessions[t].pc = "parsing"
     /\ sessions[s].input_file # NULL /\ sessions[t].input_file # NULL

\* C5. A file that cannot be opened is reported to the diagnostic sink and
\* parse_file returns nullptr to its caller, the process going on.
C5_OpenFailureReturns ==
  \A s \in Sessions :
     sessions[s].diag = "Cannot open"
       => Returned(sessions[s]) /\ sessions[s].ret = NULL /\ ~exited

\* C6. No partial Trace escapes: parse_file returns a Trace exactly when the
\* grammar engine's result is 0, that Trace is the live one built by the
\* call, and after a failure the Trace built by the call and every Scope
\* registered in it have been destroyed.
C6_NoPartialTrace ==
  \A s \in Sessions :
     Returned(sessions[s]) =>
       LET sess == sessions[s]
           t    == sess.traces[Len(sess.traces)]
       IN  /\ (sess.ret # NULL) <=> (sess.result = 0)
           /\ sess.result = 0 => sess.ret = LastTrace(sess) /\ t.alive
           /\ sess.result # 0 =>
                /\ ~t.alive
                /\ \A p \in Range(t.scopes) : ~sess.scopeObjs[p.n].alive

\* A parse has failed after scopes were added to its Trace.
C6_Witness ==
  \E s \in Sessions :
     /\ Returned(sessions[s]) /\ sessions[s].result # 0
     /\ sessions[s].ret = NULL
     /\ Len(sessions[s].traces[Len(sessions[s].traces)].scopes) >= 3

\* C7. Ownership transfer: after a successful parse_file the returned Trace
\* is the one built by the call and fh is null, and no step of the session
\* (a later parse_file, its destruction) changes or destroys a Trace handed
\* to a caller or a Scope that Trace owns.
C7_OwnershipTransfer ==
  [][\A s \in Sessions :
       /\ (Returned(sessions'[s]) /\ sessions'[s].ret # NULL)
            => /\ sessions'[s].fh = NULL
               /\ sessions'[s].ret = LastTrace(sessions'[s])
               /\ Len(sessions'[s].traces) \in Handed(sessions'[s])
       /\ \A i \in Handed(sessions[s]) :
            /\ sessions'[s].traces[i] = sessions[s].traces[i]
            /\ \A p \in Range(sessions[s].traces[i].scopes) :
                 sessions'[s].scopeObjs[p.n] = sessions[s].scopeObjs[p.n]]_vars

\* A session that handed a Trace with scopes to its caller has since run a
\* failing parse and has been destroyed, the Trace still being alive.
C7_Witness ==
  \E s \in Sessions :
     /\ sessions[s].pc = "destroyed"
     /\ Len(sessions[s].traces) = 2
     /\ sessions[s].traces[1].alive /\ ~sessions[s].traces[2].alive
     /\ Len(sessions[s].traces[1].scopes) >= 2

\* C8. Release on every exit path: whenever a session is not inside
\* parse_file, whichever way the last call ended, no input file is open,
\* input_file is null, no scanner is left and every scan_begin has had its
\* scan_end.
C8_ReleasedOnEveryExit ==
  \A s \in Sessions :
     ~InCall(sessions[s]) =>
       /\ sessions[s].input_file = NULL /\ sessions[s].scanner = NULL
       /\ sessions[s].openFiles = {} /\ sessions[s].liveScanners = {}
       /\ sessions[s].nBegin = sessions[s].nEnd

\* C9. Unmatched $upscope fails: a parse of an input in which an $upscope
\* comes when no scope of that input is open returns failure, and while the
\* grammar runs the two roots the driver pushed stay on the stack above what
\* was there when the call began.
C9_UnmatchedUpscopeFails ==
  \A s \in Sessions :
     LET sess == sessions[s]
     IN  /\ (Returned(sess) /\ sess.filepath \in DOMAIN fs
               /\ UnmatchedUpscope(fs[sess.filepath])) => sess.ret = NULL
         /\ sess.pc = "parsing" =>
               /\ Len(sess.scopes) >= sess.depth0 + 2
               /\ sess.scopes[sess.depth0 + 2] = sess.traces[sess.fh.n].root_scope

\* A parse of an input with an unmatched $upscope after a closed scope has
\* returned failure.
C9_Witness ==
  \E s \in Sessions :
     /\ Returned(sessions[s]) /\ sessions[s].filepath \in DOMAIN fs
     /\ UnmatchedUpscope(fs[sessions[s].filepath])
     /\ sessions[s].ret = NULL /\ sessions[s].diag = "syntax error"
     /\ sessions[s].diagLine > FirstLine + 1

\* C10. Unclosed scope fails: a parse of an input that opens a scope and
\* ends without the matching $upscope returns nullptr.
C10_UnclosedScopeFails ==
  \A s \in Sessions :
     (Returned(sessions[s]) /\ sessions[s].filepath \in DOMAIN fs
        /\ UnclosedScope(fs[sessions[s].filepath]))
       => sessions[s].ret = NULL /\ sessions[s].result # 0

\* A parse has read an input with an open scope to its end and has returned
\* failure.
C10_Witness ==
  \E s \in Sessions :
     /\ Returned(sessions[s]) /\ sessions[s].filepath \in DOMAIN fs
     /\ UnclosedScope(fs[sessions[s].filepath])
     /\ ~UnmatchedUpscope(fs[sessions[s].filepath])
     /\ sessions[s].pos = Len(fs[sessions[s].filepath])
     /\ sessions[s].ret = NULL

\* ------------------------------------------------------- claims, TimeSteps
\* The values of the timestamp markers of an input, in input order.
MarkerTimes(q) ==
  LET IsTime(x) == x.k = "TIME"
      m == SelectSeq(q, IsTime)
  IN  [i \in DOMAIN m |-> m[i].v]

NonDecreasing(q) == \A i \in DOMAIN q : i > 1 => q[i - 1] <= q[i]
StrictlyIncreasing(q) == \A i \in DOMAIN q : i > 1 => q[i - 1] < q[i]

\* The times of the TimeSteps of a Trace, in stored order.
StepTimes(sess, t) ==
  [i \in DOMAIN sess.traces[t.n].times |-> sess.traces[t.n].times[i].time]

MinimalSignals(pos) ==
  << [hash |-> "!", reference |-> "sig0", scope |-> pos] >>
MinimalTimes ==
  << [time |-> 0, changes |-> << [id |-> "!", v |-> 0] >>],
     [time |-> 10, changes |-> << [id |-> "!", v |-> 1] >>] >>

\* C12 as stated. Minimal file round-trip: parse_file on the minimal file
\* returns a Trace that contains exactly one scope, exactly one signal
\* (reference sig0) and exactly the TimeSteps 0 and 10, where "!" is 0 and
\* then 1.
C12_MinimalOneScope ==
  \A s \in Sessions :
     (Returned(sessions[s]) /\ sessions[s].filepath = "minimal")
       => /\ sessions[s].ret # NULL
          /\ LET v == TraceValue(sessions[s], sessions[s].ret)
             IN  /\ Len(v.scopes) = 1
                 /\ Len(v.signals) = 1 /\ v.signals[1].reference = "sig0"
                 /\ v.times = MinimalTimes

\* C12, amended. parse_file on the minimal file returns a Trace whose scope
\* list holds the synthetic root and exactly one declared scope, testbench,
\* child of the root; exactly one signal, sig0 with identifier "!", in
\* testbench; and exactly the TimeSteps 0 and 10, where "!" is 0 and then 1.
C12_MinimalRoundTrip ==
  \A s \in Sessions :
     (Returned(sessions[s]) /\ sessions[s].filepath = "minimal")
       => /\ sessions[s].ret # NULL
          /\ LET v == TraceValue(sessions[s], sessions[s].ret)
             IN  /\ v.root = 1
                 /\ [i \in DOMAIN v.scopes |-> v.scopes[i].name]
                      = << "", "testbench" >>
                 /\ v.scopes[1].children = << 2 >>
                 /\ v.scopes[2].parent = 1 /\ v.scopes[2].children = << >>
                 /\ v.scopes[1].signals = << >>
                 /\ v.scopes[2].signals
                      = << [hash |-> "!", reference |-> "sig0"] >>
                 /\ v.signals = MinimalSignals(2)
                 /\ v.times = MinimalTimes

\* The minimal file has been parsed to its end and its Trace returned, on a
\* session that parsed before.
C12_Witness ==
  \E s \in Sessions :
     /\ Returned(sessions[s]) /\ sessions[s].filepath = "minimal"
     /\ sessions[s].nBegin = 2
     /\ sessions[s].pos = Len(fs.minimal)
     /\ sessions[s].ret # NULL
     /\ sessions[s].traces[sessions[s].ret.n].alive

\* ------------------------------------------------ claims, signal registry
\* The signals an input declares, in input order, each with the position in
\* the Trace's scope list of the scope that is open around it: the root is
\* entry 1 and the n-th $scope of the input is entry n + 1.
RECURSIVE DeclaredSignals(_, _, _, _)
DeclaredSignals(q, stack, nsc, acc) ==
  IF q = << >> THEN acc
  ELSE LET x == Head(q)
       IN  IF x.k = "SCOPE"
           THEN DeclaredSignals(Tail(q), Append(stack, nsc + 2), nsc + 1, acc)
           ELSE IF x.k = "UPSCOPE"
           THEN DeclaredSignals(Tail(q), Pop(stack), nsc, acc)
           ELSE IF x.k = "VAR"
           THEN DeclaredSignals(Tail(q), stack, nsc,
                  Append(acc, [hash |-> x.a, reference |-> x.b,
                               scope |-> Top(stack)]))
           ELSE DeclaredSignals(Tail(q), stack, nsc, acc)

\* The entries of a signal list that are in the scope at a position.
SignalsOf(sigs, pos) ==
  LET In(x) == x.scope = pos
      m == SelectSeq(sigs, In)
  IN  [i \in DOMAIN m |-> [hash |-> m[i].hash, reference |-> m[i].reference]]

\* C13. Signal registration: the Trace of a successfully parsed input with k
\* $var declarations has exactly k entries in its flattened signal list, one
\* per declaration in input order, also when declarations share an
\* identifier; and the signal list of every scope holds exactly the signals
\* declared while that scope was on top of the scope stack.
C13_SignalRegistration ==
  \A s \in Sessions :
     (Returned(sessions[s]) /\ sessions[s].ret # NULL
        /\ sessions[s].filepath \in DOMAIN fs)
       => LET v == TraceValue(sessions[s], sessions[s].ret)
              q == fs[sessions[s].filepath]
              IsVar(x) == x.k = "VAR"
          IN  /\ Len(v.signals) = Len(SelectSeq(q, IsVar))
              /\ v.signals = DeclaredSignals(q, << 1 >>, 0, << >>)
              /\ \A i \in DOMAIN v.scopes :
                    v.scopes[i].signals = SignalsOf(v.signals, i)

\* A Trace has been returned for an input that declares one identifier in
\* an outer scope and again in a scope nested in it.
C13_Witness ==
  \E s \in Sessions :
     /\ Returned(sessions[s]) /\ sessions[s].ret # NULL
     /\ LET v == TraceValue(sessions[s], sessions[s].ret)
        IN  /\ Len(v.signals) = 2
            /\ v.signals[1].hash = v.signals[2].hash
            /\ v.signals[1].scope = 2 /\ v.signals[2].scope = 3
            /\ v.scopes[3].parent = 2

\* ------------------------------------------------------- claims, aliasing
\* SignalValue with the identifier mapped to one signal only, the first
\* declared with it.
SignalValueOneToOne(v, i, k) ==
  LET Mine(x) == x.id = v.signals[i].hash
      ch == SelectSeq(v.times[k].changes, Mine)
      first == CHOOSE j \in DOMAIN v.signals :
                 /\ v.signals[j].hash = v.signals[i].hash
                 /\ \A l \in DOMAIN v.signals :
                       v.signals[l].hash = v.signals[i].hash => j <= l
  IN  IF ch = << >> \/ i # first THEN [known |-> FALSE, v |-> 0]
      ELSE [known |-> TRUE, v |-> ch[Len(ch)].v]

\* The value the i-th signal of a Trace reports at the k-th TimeStep: the
\* last change that step records for the signal's identifier, if any.
SignalValue(v, i, k) ==
  LET Mine(x) == x.id = v.signals[i].hash
      ch == SelectSeq(v.times[k].changes, Mine)
  IN  IF ch = << >> THEN [known |-> FALSE, v |-> 0]
      ELSE [known |-> TRUE, v |-> ch[Len(ch)].v]

RECURSIVE RunCalls(_, _, _, _, _)
RunCalls(sess, n, path, files, stdin) ==
  IF n = 0 THEN sess
  ELSE LET s0 == ParseEnter([sess EXCEPT !.stdin0 = stdin,
                                         !.depth0 = Len(sess.scopes)],
                            path, files)
       IN  IF s0.pc = "exit" THEN s0
           ELSE RunCalls(ParseLeave(RunParser(ParseSetup(s0), files, stdin)),
                         n - 1, path, files, stdin)

\* A session without its debug toggles and without what they govern: the
\* debug flag of the scanner, the debug level of the parser and the debug
\* lines written.
Quiet(sess) ==
  [sess EXCEPT !.trace_scanning = FALSE, !.trace_parsing = FALSE,
               !.scan_debug = 0, !.parse_debug = FALSE, !.debugOut = 0]

\* C15. Debug toggles do not influence results: when a call of parse_file
\* has returned, its outcome and Trace, and the state of the session apart
\* from the toggles and the debug output, are those of the same calls made
\* on a session with both toggles off.
C15_TogglesDoNotInfluence ==
  \A s \in Sessions :
     (Returned(sessions[s]) /\ sessions[s].filepath \in DOMAIN fs)
       => LET plain == RunCalls(NewSession(s), sessions[s].nBegin,
                                sessions[s].filepath, fs, StdinContent)
          IN  /\ Outcome(sessions[s]) = Outcome(plain)
              /\ Quiet(sessions[s]) = plain

\* A session with both toggles on has written debug lines and returned a
\* Trace of two TimeSteps from its second call.
C15_Witness ==
  \E s \in Sessions :
     /\ Returned(sessions[s]) /\ sessions[s].nBegin = 2
     /\ sessions[s].trace_scanning /\ sessions[s].trace_parsing
     /\ sessions[s].debugOut > 0
     /\ sessions[s].ret # NULL
     /\ Len(sessions[s].traces[sessions[s].ret.n].times) = 2

\* ------------------------------------------------------ claims, time window
\* C16. Time window: a Trace parse_file returns holds no TimeStep whose time
\* lies outside [start_time, end_time] as set on the session before the
\* call.
C16_NothingOutsideWindow ==
  \A s \in Sessions :
     (Returned(sessions[s]) /\ sessions[s].ret # NULL)
       => \A k \in DOMAIN sessions[s].traces[sessions[s].ret.n].times :
             LET t == sessions[s].traces[sessions[s].ret.n].times[k].time
             IN  sessions[s].start_time <= t /\ t <= sessions[s].end_time

\* ------------------------------------------- claims, undeclared identifier
\* The position of the first value-change record of an input whose
\* identifier no earlier $var declares; 0 when there is none.
FirstUndeclared(q) ==
  LET U == { i \in DOMAIN q :
               /\ q[i].k = "CHANGE"
               /\ ~\E j \in 1..(i - 1) : q[j].k = "VAR" /\ q[j].a = q[i].a }
  IN  IF U = {} THEN 0 ELSE CHOOSE i \in U : \A j \in U : i <= j

LastMarker(q, n) ==
  LET m == MarkerTimes(SubSeq(q, 1, n))
  IN  IF m = << >> THEN 0 ELSE m[Len(m)]

\* The position of the first token of the value-change section of an input;
\* 0 when the section is empty or missing.
FirstOfSection(q) ==
  LET E == { i \in DOMAIN q : q[i].k = "ENDDEFS" /\ i < Len(q) }
  IN  IF E = {} THEN 0 ELSE 1 + CHOOSE i \in E : \A j \in E : i <= j

\* C18. Time cursor: when parse_file has acquired its input and no token
\* has been consumed, current_time is 0, whatever the session parsed
\* before; from then on current_time is the value of the last timestamp
\* marker consumed from the current input; and in the returned Trace a
\* value change that precedes the first marker is in a TimeStep of time 0.
C18_TimeCursor ==
  \A s \in Sessions :
     LET sess == sessions[s]
     IN  /\ sess.pc = "opened" => sess.current_time = 0
         /\ (sess.pc \in {"parsing", "parsed"} /\ sess.filepath \in DOMAIN fs)
              => sess.current_time = LastMarker(fs[sess.filepath], sess.pos)
         /\ (Returned(sess) /\ sess.ret # NULL /\ sess.filepath \in DOMAIN fs)
              => LET q == fs[sess.filepath]
                     f == FirstOfSection(q)
                 IN  /\ sess.current_time = LastMarker(q, Len(q))
                     /\ (f > 0 /\ q[f].k = "CHANGE")
                          => /\ sess.traces[sess.ret.n].times[1].time = 0
                             /\ sess.traces[sess.ret.n].times[1].changes[1]
                                  = [id |-> q[f].a, v |-> q[f].v]

\* A session whose first parse ended with the time cursor at 10 has, in its
\* second call, consumed a value change ahead of any timestamp marker.
C18_Witness ==
  \E s \in Sessions :
     /\ sessions[s].pc = "parsing" /\ sessions[s].nBegin = 2
     /\ LastMarker(fs[sessions[s].filepath], Len(fs[sessions[s].filepath])) = 10
     /\ sessions[s].pos = FirstOfSection(fs[sessions[s].filepath])
     /\ fs[sessions[s].filepath][sessions[s].pos].k = "CHANGE"
     /\ sessions[s].current_time = 0
     /\ sessions[s].traces[sessions[s].fh.n].times[1].time = 0

\* ------------------------------------------------------ claims, scope stack
\* The grammar engine of a session's call is about to start: the parser
\* object exists and no token has been accepted.
AtGrammarStart(sess) ==
  sess.pc = "parsing" /\ sess.nblocks = 0 /\ sess.phase = "decl"

\* C19. Stack at grammar start: when the grammar engine is started inside
\* parse_file, the scope stack holds exactly one entry, the root Scope of
\* the Trace the call has just constructed.
C19_OneRootAtGrammarStart ==
  \A s \in Sessions :
     AtGrammarStart(sessions[s])
       => /\ Len(sessions[s].scopes) = 1
          /\ sessions[s].scopes[1]
               = sessions[s].traces[sessions[s].fh.n].root_scope

\* C20. Stack after success: when parse_file has returned a Trace, the scope
\* stack of the session is empty.
C20_EmptyAfterSuccess ==
  \A s \in Sessions :
     (Returned(sessions[s]) /\ sessions[s].ret # NULL)
       => sessions[s].scopes = << >>

\* ------------------------------------------------ claims, state after failure
\* C21. Clean state after failure: when parse_file has returned failure, no
\* entry of the session's scope stack refers to a Scope of the Trace the
\* call destroyed.
C21_CleanAfterFailure ==
  \A s \in Sessions :
     (Returned(sessions[s]) /\ sessions[s].ret = NULL
        /\ sessions[s].traces # << >>)
       => \A i \in DOMAIN sessions[s].scopes :
             sessions[s].scopes[i]
               \notin Range(sessions[s].traces[Len(sessions[s].traces)].scopes)

\* ---------------------------------------------------- claims, location tracker
\* C22. Location tracker per parse: when a call of parse_file has acquired
\* its input and no token has been consumed, the session's loc is at its
\* initial position, and a diagnostic of the call names the line within the
\* call's own input.
C22_LocResetPerParse ==
  \A s \in Sessions :
     /\ sessions[s].pc = "opened" => sessions[s].loc = FirstLine
     /\ (Returned(sessions[s]) /\ sessions[s].diag = "syntax error"
           /\ sessions[s].ret = NULL /\ sessions[s].filepath \in DOMAIN fs)
          => sessions[s].diagLine = FirstLine + sessions[s].pos

\* ------------------------------------------------------ claims, input source
\* C23. Standard input handling: for the empty path and for "-" the call
\* reads the process's stdin and has no file open, and stdin is never
\* closed; for any other path that can be opened the call has one file
\* open, its own, and scan_end closes it once; after scan_end input_file
\* is null and the session has no file open.
C23_StdinHandling ==
  \A s \in Sessions :
     LET sess == sessions[s]
     IN  /\ ~sess.closedStdin
         /\ (sess.pc \in {"opened", "parsing", "parsed"}
               /\ sess.filepath \in {"", "-"})
              => /\ sess.input_file = STDIN
                 /\ sess.openFiles = {} /\ sess.nclose = sess.nopen
         /\ (sess.pc \in {"opened", "parsing", "parsed"}
               /\ sess.filepath \notin {"", "-"})
              => /\ sess.input_file # STDIN
                 /\ sess.openFiles = {sess.input_file}
                 /\ sess.nopen = sess.nclose + 1
         /\ Returned(sess)
              => /\ sess.input_file = NULL
                 /\ sess.openFiles = {} /\ sess.nclose = sess.nopen
                 /\ sess.nEnd = sess.nBegin

\* One session has returned from a parse of standard input, having opened
\* no file, and another from a parse of a named file, closed once.
C23_Witness ==
  \E s, t \in Sessions :
     /\ s # t /\ Returned(sessions[s]) /\ Returned(sessions[t])
     /\ sessions[s].filepath = "-" /\ sessions[s].nopen = 0
     /\ sessions[s].nEnd = 1 /\ sessions[s].ret # NULL
     /\ sessions[t].filepath \in DOMAIN fs
     /\ sessions[t].nopen = 1 /\ sessions[t].nclose = 1
     /\ sessions[t].nEnd = 1

\* ------------------------------------------------------- claims, scope tree
\* Scanning the $scope and $upscope tokens of an input: the positions in the
\* Trace's scope list of the scopes that are open, outermost first, under
\* the root at position 1, and for each $scope in input order the position
\* of the scope that was innermost when it was opened.
RECURSIVE ScanScopes(_, _, _, _)
ScanScopes(q, open, nsc, parents) ==
  IF q = << >> THEN [open |-> open, parents |-> parents]
  ELSE IF Head(q).k = "SCOPE"
       THEN ScanScopes(Tail(q), Append(open, nsc + 2), nsc + 1,
                       Append(parents, open[Len(open)]))
  ELSE IF Head(q).k = "UPSCOPE" /\ Len(open) > 1
       THEN ScanScopes(Tail(q), SubSeq(open, 1, Len(open) - 1), nsc, parents)
  ELSE ScanScopes(Tail(q), open, nsc, parents)

\* The scopes of the session's heap that have p in their child list, each
\* as often as it has it.
ParentsOf(sess, p) ==
  { << k, i >> \in (DOMAIN sess.scopeObjs) \X (1..Len(sess.scopeObjs)) :
      /\ i \in DOMAIN sess.scopeObjs[k].children
      /\ sess.scopeObjs[k].children[i] = p }

\* C24. Scope tree discipline: while the grammar engine runs over the $scope
\* and $upscope tokens of an input, the top of the scope stack is the most
\* recently opened scope that is not yet closed (the Trace's root when none
\* is open); every scope other than the root is in the child list of
\* exactly one scope, once, and that scope is the one that was on top of
\* the stack when it was opened; and every scope's parent comes before it
\* in the Trace, so the scopes form a tree under the root.
C24_ScopeTreeDiscipline ==
  \A s \in Sessions :
     LET sess == sessions[s]
     IN  (sess.pc = "parsing" /\ sess.filepath \in DOMAIN fs)
           => LET tr == sess.traces[sess.fh.n]
                  sc == ScanScopes(SubSeq(fs[sess.filepath], 1, sess.pos),
                                   << 1 >>, 0, << >>)
              IN  /\ PosIn(tr.scopes, Top(sess.scopes))
                       = sc.open[Len(sc.open)]
                  /\ Len(tr.scopes) = Len(sc.parents) + 1
                  /\ tr.scopes[1] = tr.root_scope
                  /\ ParentsOf(sess, tr.root_scope) = {}
                  /\ \A i \in 2..Len(tr.scopes) :
                        LET par == PosIn(tr.scopes,
                                         sess.scopeObjs[tr.scopes[i].n].parent)
                        IN  /\ par = sc.parents[i - 1] /\ par < i
                            /\ Cardinality(ParentsOf(sess, tr.scopes[i])) = 1
                            /\ \E c \in DOMAIN sess.scopeObjs[tr.scopes[par].n].children :
                                  sess.scopeObjs[tr.scopes[par].n].children[c]
                                    = tr.scopes[i]

\* On a session that has parsed before, a scope has been opened under the
\* root after two nested scopes were opened and closed.
C24_Witness ==
  \E s \in Sessions :
     LET sess == sessions[s]
     IN  /\ sess.pc = "parsing" /\ sess.nBegin = 2
         /\ Len(sess.traces[sess.fh.n].scopes) = 4
         /\ sess.open = 1
         /\ sess.scopeObjs[sess.traces[sess.fh.n].scopes[3].n].parent
              = sess.traces[sess.fh.n].scopes[2]
         /\ sess.scopeObjs[Top(sess.scopes).n].parent
              = sess.traces[sess.fh.n].root_scope
         /\ Top(sess.scopes) = sess.traces[sess.fh.n].scopes[4]

\* ------------------------------------------------------ claims, single root
\* The scope at a position of a Trace's scope list descends from the scope
\* at position r: following parents leads to r.
RECURSIVE DescendsFrom(_, _, _, _)
DescendsFrom(sess, tr, p, fuel) ==
  IF p = tr.root_scope THEN TRUE
  ELSE IF fuel = 0 \/ p = NULL \/ p \notin Range(tr.scopes) THEN FALSE
  ELSE DescendsFrom(sess, tr, sess.scopeObjs[p.n].parent, fuel - 1)

\* C25. Single root: every Trace under construction or returned has one
\* root Scope, of the synthetic root kind, that is in the Trace's scope list
\* exactly once; no other scope of the Trace is of the root kind, and every
\* other scope of the Trace descends from the root.
C25_SingleRoot ==
  \A s \in Sessions :
     \A n \in DOMAIN sessions[s].traces :
        LET sess == sessions[s]
            tr == sess.traces[n]
        IN  (tr.alive /\ (TracePtr(sess, n) = InProgress(sess)
                            \/ n \in Handed(sess)))
              => /\ tr.root_scope # NULL
                 /\ sess.scopeObjs[tr.root_scope.n].type = "VCD_SCOPE_ROOT"
                 /\ sess.scopeObjs[tr.root_scope.n].parent = NULL
                 /\ Cardinality({ i \in DOMAIN tr.scopes :
                                    tr.scopes[i] = tr.root_scope }) = 1
                 /\ \A i \in DOMAIN tr.scopes :
                       tr.scopes[i] # tr.root_scope
                         => /\ sess.scopeObjs[tr.scopes[i].n].type
                                 # "VCD_SCOPE_ROOT"
                            /\ DescendsFrom(sess, tr, tr.scopes[i],
                                            Len(tr.scopes))

\* A Trace with a scope nested two deep under its root has been returned by
\* the second call on a session.
C25_Witness ==
  \E s \in Sessions :
     LET sess == sessions[s]
     IN  /\ Returned(sess) /\ sess.ret # NULL /\ sess.nBegin = 2
         /\ Len(sess.traces[sess.ret.n].scopes) = 3
         /\ sess.scopeObjs[sess.traces[sess.ret.n].scopes[3].n].parent
              = sess.traces[sess.ret.n].scopes[2]
         /\ sess.scopeObjs[sess.traces[sess.ret.n].scopes[2].n].parent
              = sess.traces[sess.ret.n].root_scope

\* ---------------------------------------------------- claims, scope ownership
\* C26. Scopes owned by the Trace: while a call of parse_file runs, every
\* entry of the scope stack refers to a Scope in the scope list of the
\* call's Trace; and when the call has failed and destroyed its Trace, no
\* Scope the session has allocated is left alive.
C26_ScopesOwnedByTrace ==
  \A s \in Sessions :
     LET sess == sessions[s]
     IN  /\ sess.pc \in {"parsing", "parsed"}
              => \A i \in DOMAIN sess.scopes :
                    sess.scopes[i] \in Range(sess.traces[sess.fh.n].scopes)
         /\ (Returned(sess) /\ sess.ret = NULL /\ Handed(sess) = {})
              => \A k \in DOMAIN sess.scopeObjs : ~sess.scopeObjs[k].alive

\* -------------------------------------------------------------- claims, fh
\* C27. fh never dangling: when a call of parse_file has returned, with
\* whatever outcome, the session's fh is null or refers to a Trace that is
\* alive.
C27_FhNeverDangling ==
  \A s \in Sessions :
     Returned(sessions[s])
       => \/ sessions[s].fh = NULL
          \/ /\ sessions[s].fh.n \in DOMAIN sessions[s].traces
             /\ sessions[s].traces[sessions[s].fh.n].alive

====
